---- MODULE Spec2Model ----
(***************************************************************************)
(* Model of GAME3111_LiIngram_A1.cpp (TexColumnsApp): the frame loop with  *)
(* its ring of frame resources and the CPU/GPU fence, the dirty counters   *)
(* of render items and materials, and the mouse-driven orbit camera.       *)
(*                                                                         *)
(* Angles are fixed point in units of 10^-5 radian, the radius in 1/100    *)
(* scene units, mouse positions in pixels.                                 *)
(***************************************************************************)
EXTENDS Integers, Sequences, FiniteSets, TLC

\* ---------------------------------------------------------------- bounds
\* Frames are started only while mCurrentFence is below this cap.
MaxFence == 7
\* Number of mouse messages a run delivers.
MaxMouseEvents == 4

\* The largest vertex count and index count of a generated mesh when the
\* mesh sizes are left open.
MaxMeshSize == 2

\* The number of mouse messages handled between frames when frames and
\* mouse messages run together.
MaxSceneMouseEvents == 1

\* When frames and mouse messages run together, frames are started only
\* while mCurrentFence is below this cap.
MaxSceneFence == 5

\* ---------------------------------------------------- program constants
gNumFrameResources == 3
SwapChainBufferCount == 2
NumMaterials == 3
\* mAllRitems.size() after BuildRenderItems: 29 items written out and two
\* rounds of four tower items.
NumRitems == 37

\* XM_PI and the literals 0.1f and Pi - 0.1f of OnMouseMove, in 10^-5 radian
Pi == 314159
PhiMin == 10000
PhiMax == Pi - 10000
\* 5.0f and 150.0f in 1/100 units
RadiusMin == 500
RadiusMax == 15000
\* initial camera: 1.5*Pi, 0.2*Pi, 100.0f
ThetaInit == 471239
PhiInit == 62832
RadiusInit == 10000

\* The content of an upload buffer element no CopyData has reached.
Unwritten == -1

Slots == 0 .. (gNumFrameResources - 1)
Ritems == 0 .. (NumRitems - 1)
Materials == 0 .. (NumMaterials - 1)

\* mouse positions delivered by the window messages
MouseXs == {0, 40}
MouseYs == {0, 20, 3000}
\* btnState: the subsets of {MK_LBUTTON, MK_RBUTTON}
MK_LBUTTON == "L"
MK_RBUTTON == "R"
BtnStates == SUBSET {MK_LBUTTON, MK_RBUTTON}

VARIABLES
    pc,                      \* position of the CPU thread
    mCurrFrameResourceIndex, \* ring index
    mCurrFrameResource,      \* the slot mCurrFrameResource points to, or nullptr
    slotFence,               \* FrameResource::Fence of each slot
    mCurrentFence,           \* last fence value issued by the CPU
    completed,               \* mFence->GetCompletedValue()
    gpuQueue,                \* commands submitted and not yet finished by the GPU
    NumFramesDirty,          \* RenderItem::NumFramesDirty per render item
    MatNumFramesDirty,       \* Material::NumFramesDirty per material
    ObjectCB,                \* per slot, per element: the World held, or Unwritten
    objWrites,               \* per slot and element: CopyData calls into ObjectCB
    matWrites,               \* per slot and material: CopyData calls into MaterialCB
    passFrame,               \* per slot: the frame whose pass constants it holds
    frame,                   \* number of Updates started
    updates,                 \* number of Updates that wrote their constants
    idxHist,                 \* last ring indices, oldest first (at most 4)
    waited,                  \* whether the current Update blocked on the fence
    eventHandle,             \* the event of the current Update's wait: "none", "valid" or "null"
    geoGen,                  \* per shape: the sizes of the mesh GeometryGenerator makes
    mGeometries,             \* "shapeGeo": the shared buffers and the DrawArgs
    mAllRitems,              \* the scene table, in the order of the push_backs
    drawCalls,               \* DrawIndexedInstanced calls of the last recorded frame
    key1Down,                \* whether the '1' key is held
    drawnPso,                \* pipeline state the last frame was recorded with
    mCurrBackBuffer,         \* index of the swap chain's back buffer
    md3dDevice,              \* whether the device was created
    mView,                   \* the camera the view matrix was last built from
    failedAt,                \* the checked call that failed, or "none"
    diagnostic,              \* MessageBox "HR Failed" shown
    mTheta, mPhi, mRadius,   \* orbit camera
    mLastMousePos,           \* POINT mLastMousePos
    captured,                \* whether the window holds the mouse capture
    nMouseEvents             \* mouse messages handled so far

vars == << pc, mCurrFrameResourceIndex, mCurrFrameResource, slotFence, mCurrentFence, completed,
           gpuQueue, NumFramesDirty, MatNumFramesDirty, ObjectCB, objWrites, matWrites,
           passFrame, frame, updates, idxHist, waited, eventHandle, geoGen, mGeometries, mAllRitems,
           drawCalls, key1Down, drawnPso, mCurrBackBuffer,
           md3dDevice, mView, failedAt, diagnostic, mTheta, mPhi, mRadius,
           mLastMousePos, captured, nMouseEvents >>

cameraVars == << mTheta, mPhi, mRadius, mLastMousePos, captured, nMouseEvents >>

errVars == << failedAt, diagnostic >>

gpuVars == << completed, gpuQueue >>

drawVars == << drawnPso, mCurrBackBuffer, drawCalls >>

cbVars == << NumFramesDirty, MatNumFramesDirty, ObjectCB, objWrites, matWrites, passFrame >>

ringVars == << mCurrFrameResourceIndex, mCurrFrameResource, idxHist, frame, updates >>

fenceVars == << slotFence, mCurrentFence >>

\* FrameResource* mCurrFrameResource = nullptr: no slot.
nullptr == -1

\* mFrameResources[i].get(): the slot at position i of the ring.
mFrameResources(i) == i

\* MathHelper::Identity4x4(), the initial value of mView: the view of no
\* position of the orbit camera (its radius is at least RadiusMin).
Identity4x4 == [theta |-> 0, phi |-> 0, radius |-> 0]

\* ------------------------------------------------------------- helpers
\* A command list executed against a slot (arg = slot, -1 for the
\* initialization commands) or a fence signal (arg = value).
ExecCmd(slot) == [kind |-> "exec", arg |-> slot]
SignalCmd(value) == [kind |-> "signal", arg |-> value]

\* The last n elements of a sequence.
LastN(seq, n) == IF Len(seq) <= n THEN seq ELSE SubSeq(seq, Len(seq) - n + 1, Len(seq))

\* The GPU may still be reading a slot while a command list recorded
\* against it is in the queue.
GpuMayRead(slot) == \E k \in 1 .. Len(gpuQueue) : gpuQueue[k] = ExecCmd(slot)

\* ThrowIfFailed on a failing HRESULT: the DxException leaves the try block
\* of WinMain, which destroys theApp before the handler runs.
Throw(site) ==
    /\ failedAt' = site
    /\ pc' = "dtor"
    /\ UNCHANGED diagnostic

\* ------------------------------------------------------- scene table
\* The meshes of BuildShapeGeometry in the order they are concatenated.
ShapeOrder == << "box", "grid", "sphere", "cylinder" >>

Shapes == {"box", "grid", "sphere", "cylinder"}

geoVars == << geoGen, mGeometries >>

\* Sizes of the meshes CreateBox, CreateGrid, CreateSphere and CreateCylinder
\* return for the arguments of BuildShapeGeometry; small stand-ins, the
\* generator is outside this file.
GeneratedMeshes ==
    [shape \in Shapes |->
        CASE shape = "box" -> [Vertices |-> 4, Indices32 |-> 6]
          [] shape = "grid" -> [Vertices |-> 6, Indices32 |-> 12]
          [] shape = "sphere" -> [Vertices |-> 5, Indices32 |-> 9]
          [] shape = "cylinder" -> [Vertices |-> 7, Indices32 |-> 15]]

\* mesh.Vertices.size()
MeshVertexCount(shape) == geoGen[shape].Vertices

\* mesh.Indices32.size()
MeshIndexCount(shape) == geoGen[shape].Indices32

RECURSIVE VerticesBefore(_)
\* vertex offsets: the vertices of the first n meshes of ShapeOrder.
VerticesBefore(n) ==
    IF n = 0 THEN 0 ELSE VerticesBefore(n - 1) + MeshVertexCount(ShapeOrder[n])

RECURSIVE IndicesBefore(_)
\* index offsets: the indices of the first n meshes of ShapeOrder.
IndicesBefore(n) ==
    IF n = 0 THEN 0 ELSE IndicesBefore(n - 1) + MeshIndexCount(ShapeOrder[n])

ShapePosition(shape) == CHOOSE n \in 1 .. Len(ShapeOrder) : ShapeOrder[n] = shape

\* The index offset taken from the vertex offsets.
DrawArgs_VertexOffsetForIndices(shape) ==
    [IndexCount |-> MeshIndexCount(shape),
     StartIndexLocation |-> VerticesBefore(ShapePosition(shape) - 1),
     BaseVertexLocation |-> VerticesBefore(ShapePosition(shape) - 1)]

\* geo->DrawArgs[shape]: the submesh of the shape in the shared buffers.
DrawArgs(shape) ==
    [IndexCount |-> MeshIndexCount(shape),
     StartIndexLocation |-> IndicesBefore(ShapePosition(shape) - 1),
     BaseVertexLocation |-> VerticesBefore(ShapePosition(shape) - 1)]

\* n elements of the mesh of a shape, each tagged with the shape.
Elements(shape, n) == [k \in 1 .. n |-> shape]

\* mGeometries before BuildShapeGeometry: no buffers and no submeshes.
NoGeometry ==
    [vertices |-> << >>,
     indices |-> << >>,
     DrawArgs |-> [shape \in Shapes |->
                     [IndexCount |-> 0, StartIndexLocation |-> 0,
                      BaseVertexLocation |-> 0]]]

\* BuildShapeGeometry: the vertices of box, grid, sphere and cylinder are
\* copied one after the other into one vertex buffer, their indices are
\* appended to one index buffer, and the four submeshes are stored under
\* their names.
BuildShapeGeometry ==
    [vertices |-> Elements("box", MeshVertexCount("box"))
                    \o Elements("grid", MeshVertexCount("grid"))
                    \o Elements("sphere", MeshVertexCount("sphere"))
                    \o Elements("cylinder", MeshVertexCount("cylinder")),
     indices |-> Elements("box", MeshIndexCount("box"))
                   \o Elements("grid", MeshIndexCount("grid"))
                   \o Elements("sphere", MeshIndexCount("sphere"))
                   \o Elements("cylinder", MeshIndexCount("cylinder")),
     DrawArgs |-> [shape \in Shapes |-> DrawArgs(shape)]]

\* tile0 given the heap index after the last descriptor.
tile0_PastHeapEnd == [Name |-> "tile0", MatCBIndex |-> 2, DiffuseSrvHeapIndex |-> 3]

\* The materials of BuildMaterials.
bricks0 == [Name |-> "bricks0", MatCBIndex |-> 0, DiffuseSrvHeapIndex |-> 0]
stone0 == [Name |-> "stone0", MatCBIndex |-> 1, DiffuseSrvHeapIndex |-> 1]
tile0 == [Name |-> "tile0", MatCBIndex |-> 2, DiffuseSrvHeapIndex |-> 2]

\* mMaterials after BuildMaterials: the three materials under their names.
mMaterials ==
    [name \in {"bricks0", "stone0", "tile0"} |->
        CASE name = "bricks0" -> bricks0
          [] name = "stone0" -> stone0
          [] name = "tile0" -> tile0]

\* srvHeapDesc.NumDescriptors of BuildDescriptorHeaps.
NumDescriptors == 3

\* A render item as BuildRenderItems fills it: its World (0 is the identity,
\* any other number stands for the transform written for that item), its
\* ObjCBIndex, its material, the geometry "shapeGeo" and the draw arguments
\* of its shape.
RenderItem(World, ObjCBIndex, Mat, shape) ==
    [World |-> World,
     ObjCBIndex |-> ObjCBIndex,
     Mat |-> Mat,
     Geo |-> "shapeGeo",
     IndexCount |-> DrawArgs(shape).IndexCount,
     StartIndexLocation |-> DrawArgs(shape).StartIndexLocation,
     BaseVertexLocation |-> DrawArgs(shape).BaseVertexLocation]

\* The items BuildRenderItems writes out one by one, each with a literal
\* ObjCBIndex, in the order of their push_back.
LiteralRitems ==
    << RenderItem(1, 0, mMaterials["stone0"], "box"),   \* boxRitem
       RenderItem(2, 1, mMaterials["stone0"], "box"),   \* box2Ritem
       RenderItem(3, 2, mMaterials["stone0"], "box"),   \* box3Ritem
       RenderItem(4, 3, mMaterials["stone0"], "box"),   \* box4Ritem
       RenderItem(5, 4, mMaterials["stone0"], "box"),   \* box5Ritem
       RenderItem(6, 5, mMaterials["stone0"], "box"),   \* box6Ritem
       RenderItem(7, 6, mMaterials["tile0"], "box"),   \* FMerlin1
       RenderItem(8, 7, mMaterials["tile0"], "box"),   \* FMerlin2
       RenderItem(9, 8, mMaterials["tile0"], "box"),   \* FMerlin3
       RenderItem(10, 9, mMaterials["tile0"], "box"),   \* FMerlin4
       RenderItem(11, 10, mMaterials["tile0"], "box"),   \* FMerlin5
       RenderItem(12, 11, mMaterials["tile0"], "box"),   \* FMerlin6
       RenderItem(13, 12, mMaterials["tile0"], "box"),   \* FMerlin7
       RenderItem(14, 13, mMaterials["bricks0"], "box"),   \* FCrenel1
       RenderItem(15, 14, mMaterials["bricks0"], "box"),   \* FCrenel2
       RenderItem(16, 15, mMaterials["tile0"], "box"),   \* BMerlin1
       RenderItem(17, 16, mMaterials["tile0"], "box"),   \* BMerlin2
       RenderItem(18, 17, mMaterials["tile0"], "box"),   \* BMerlin3
       RenderItem(19, 18, mMaterials["tile0"], "box"),   \* BMerlin4
       RenderItem(20, 19, mMaterials["tile0"], "box"),   \* BMerlin5
       RenderItem(21, 20, mMaterials["tile0"], "box"),   \* BMerlin6
       RenderItem(22, 21, mMaterials["tile0"], "box"),   \* BMerlin7
       RenderItem(23, 22, mMaterials["bricks0"], "box"),   \* BCrenel1
       RenderItem(24, 23, mMaterials["bricks0"], "box"),   \* BCrenel2
       RenderItem(0, 24, mMaterials["bricks0"], "grid"),   \* gridRitem
       RenderItem(26, 25, mMaterials["bricks0"], "box"),   \* LCrenel1
       RenderItem(27, 26, mMaterials["bricks0"], "box"),   \* LCrenel2
       RenderItem(28, 27, mMaterials["bricks0"], "box"),   \* RCrenel1
       RenderItem(29, 28, mMaterials["bricks0"], "box") >>   \* RCrenel2

\* The counter of the tower loop started one too low.
objCBIndex_OneLow == Len(LiteralRitems) - 1

\* UINT objCBIndex = 29: the counter the tower loop numbers its items with.
objCBIndex == 29

\* One round i of the tower loop: two cylinders and two spheres, each taking
\* objCBIndex++ (the cone items are commented out), pushed in this order.
TowerRitems(i) ==
    LET first == objCBIndex + (4 * i)
        leftCylWorld == 30 + (4 * i)
        rightCylWorld == 31 + (4 * i)
        leftSphereWorld == 32 + (4 * i)
        rightSphereWorld == 33 + (4 * i)
    IN << RenderItem(leftCylWorld, first, mMaterials["bricks0"], "cylinder"),
          RenderItem(rightCylWorld, first + 1, mMaterials["bricks0"], "cylinder"),
          RenderItem(leftSphereWorld, first + 2, mMaterials["stone0"], "sphere"),
          RenderItem(rightSphereWorld, first + 3, mMaterials["stone0"], "sphere") >>

\* BuildRenderItems: the literal items, then the two rounds of the tower
\* loop.
BuildRenderItems ==
    LiteralRitems \o TowerRitems(0) \o TowerRitems(1)

\* mOpaqueRitems: every item of mAllRitems, in order.
mOpaqueRitems == [k \in 1 .. Len(mAllRitems) |-> k]

\* The loop of DrawRenderItems started at the second item.
DrawRenderItems_SkipsFirst(ritems) ==
    [k \in 1 .. (Len(ritems) - 1) |->
        LET ri == mAllRitems[ritems[k + 1]]
        IN [item |-> ritems[k + 1],
            slot |-> mCurrFrameResource,
            ObjCBIndex |-> ri.ObjCBIndex,
            Geo |-> ri.Geo,
            Mat |-> ri.Mat,
            DiffuseSrvHeapIndex |-> ri.Mat.DiffuseSrvHeapIndex,
            MatCBIndex |-> ri.Mat.MatCBIndex,
            IndexCount |-> ri.IndexCount,
            StartIndexLocation |-> ri.StartIndexLocation,
            BaseVertexLocation |-> ri.BaseVertexLocation]]

\* DrawRenderItems: one DrawIndexedInstanced per item of ritems, reading the
\* current slot's object and material constants.
DrawRenderItems(ritems) ==
    [k \in 1 .. Len(ritems) |->
        LET ri == mAllRitems[ritems[k]]
        IN [item |-> ritems[k],
            slot |-> mCurrFrameResource,
            ObjCBIndex |-> ri.ObjCBIndex,
            Geo |-> ri.Geo,
            Mat |-> ri.Mat,
            DiffuseSrvHeapIndex |-> ri.Mat.DiffuseSrvHeapIndex,
            MatCBIndex |-> ri.Mat.MatCBIndex,
            IndexCount |-> ri.IndexCount,
            StartIndexLocation |-> ri.StartIndexLocation,
            BaseVertexLocation |-> ri.BaseVertexLocation]]

\* ------------------------------------------------------------- Init
Init ==
    /\ pc = "start"
    /\ mCurrFrameResourceIndex = 0
    /\ mCurrFrameResource = nullptr
    /\ slotFence = [s \in Slots |-> 0]
    /\ mCurrentFence = 0
    /\ completed = 0
    /\ gpuQueue = << >>
    /\ NumFramesDirty = [i \in Ritems |-> gNumFrameResources]
    /\ MatNumFramesDirty = [m \in Materials |-> gNumFrameResources]
    /\ ObjectCB = [s \in Slots |-> [e \in Ritems |-> Unwritten]]
    /\ objWrites = [s \in Slots |-> [i \in Ritems |-> 0]]
    /\ matWrites = [s \in Slots |-> [m \in Materials |-> 0]]
    /\ passFrame = [s \in Slots |-> 0]
    /\ frame = 0
    /\ updates = 0
    /\ idxHist = << 0 >>
    /\ waited = FALSE
    /\ eventHandle = "none"
    /\ geoGen = GeneratedMeshes
    /\ mGeometries = NoGeometry
    /\ mAllRitems = << >>
    /\ drawCalls = << >>
    /\ key1Down = FALSE
    /\ drawnPso = "none"
    /\ mCurrBackBuffer = 0
    /\ md3dDevice = FALSE
    /\ mView = Identity4x4
    /\ failedAt = "none"
    /\ diagnostic = FALSE
    /\ mTheta = ThetaInit
    /\ mPhi = PhiInit
    /\ mRadius = RadiusInit
    /\ mLastMousePos \in [x : MouseXs, y : MouseYs]
    /\ captured = FALSE
    /\ nMouseEvents = 0

\* ------------------------------------------------- WinMain / Initialize
\* D3DApp::Initialize() succeeds: window and device exist.
InitializeBase ==
    /\ pc = "start"
    /\ md3dDevice' = TRUE
    /\ pc' = "init_build"
    /\ UNCHANGED << ringVars, waited, eventHandle, fenceVars, gpuVars, cbVars, geoVars, mAllRitems, mView, key1Down, drawVars,
                    errVars, cameraVars >>

\* D3DApp::Initialize() returns false (the window or the device could not be
\* set up): Initialize returns false and WinMain returns 0; theApp is
\* destroyed on the way out.
InitializeBaseFails ==
    /\ pc = "start"
    /\ md3dDevice' \in BOOLEAN
    /\ pc' = "dtor"
    /\ UNCHANGED << ringVars, waited, eventHandle, fenceVars, gpuVars, cbVars, geoVars, mAllRitems, mView, key1Down, drawVars,
                    errVars, cameraVars >>

\* Reset of the command list and the Build... steps, all ThrowIfFailed.
InitializeBuild ==
    /\ pc = "init_build"
    /\ \/ /\ mGeometries' = BuildShapeGeometry
          /\ mAllRitems' = BuildRenderItems
          /\ pc' = "init_submit"
          /\ UNCHANGED errVars
       \/ /\ Throw("Initialize.Build")
          /\ UNCHANGED << mGeometries, mAllRitems >>
    /\ UNCHANGED << ringVars, waited, eventHandle, fenceVars, gpuVars, cbVars, geoGen, mView,
                    key1Down, drawVars, md3dDevice, cameraVars >>

\* Close (checked) and ExecuteCommandLists of the initialization commands.
InitializeSubmit ==
    /\ pc = "init_submit"
    /\ \/ /\ gpuQueue' = Append(gpuQueue, ExecCmd(-1))
          /\ pc' = "init_flush"
          /\ UNCHANGED errVars
       \/ /\ Throw("Initialize.Close")
          /\ UNCHANGED gpuQueue
    /\ UNCHANGED << ringVars, waited, eventHandle, fenceVars, completed, cbVars, geoVars, mAllRitems, mView, key1Down, drawVars,
                    md3dDevice, cameraVars >>

\* FlushCommandQueue, first half: advance the fence and signal it.
FlushSignal(from, to) ==
    /\ pc = from
    /\ mCurrentFence' = mCurrentFence + 1
    /\ gpuQueue' = Append(gpuQueue, SignalCmd(mCurrentFence + 1))
    /\ pc' = to
    /\ UNCHANGED << ringVars, waited, eventHandle, slotFence, completed, cbVars, geoVars, mAllRitems, mView, key1Down, drawVars,
                    md3dDevice, errVars, cameraVars >>

\* FlushCommandQueue, second half: block until the GPU reached that value.
FlushWait(from, to) ==
    /\ pc = from
    /\ completed >= mCurrentFence
    /\ pc' = to
    /\ UNCHANGED << ringVars, waited, eventHandle, fenceVars, gpuVars, cbVars, geoVars, mAllRitems, mView, key1Down, drawVars,
                    md3dDevice, errVars, cameraVars >>

InitializeFlush == FlushSignal("init_flush", "init_wait")

\* Initialize returning true right after the signal, without the wait of
\* FlushCommandQueue.
InitializeDone_NoWait ==
    /\ pc = "init_wait"
    /\ pc' = "idle"
    /\ UNCHANGED << ringVars, waited, eventHandle, fenceVars, gpuVars, cbVars, geoVars, mAllRitems, mView, key1Down, drawVars,
                    md3dDevice, errVars, cameraVars >>

\* Initialize returns true and WinMain enters Run.
InitializeDone == FlushWait("init_wait", "idle")

\* ------------------------------------------------------------- the GPU
\* The GPU finishes the oldest command of the queue; a signal sets the
\* fence's completed value.
GpuStep ==
    /\ gpuQueue # << >>
    /\ gpuQueue' = Tail(gpuQueue)
    /\ completed' = IF Head(gpuQueue).kind = "signal" THEN Head(gpuQueue).arg
                    ELSE completed
    /\ UNCHANGED << pc, ringVars, waited, eventHandle, fenceVars, cbVars, geoVars, mAllRitems, mView, key1Down, drawVars,
                    md3dDevice, errVars, cameraVars >>

\* The user presses or releases the '1' key between two frames.
KeyChange ==
    /\ pc = "idle"
    /\ key1Down' = ~key1Down
    /\ UNCHANGED << pc, ringVars, waited, eventHandle, fenceVars, gpuVars, cbVars, geoVars, mAllRitems, mView, drawVars,
                    md3dDevice, errVars, cameraVars >>

\* ------------------------------------------------------------- Update
\* A ring index with a wrong modulus.
NextFrameResourceIndex_WrongModulus(i) == (i + 1) % (gNumFrameResources - 1)

\* mCurrFrameResourceIndex = (mCurrFrameResourceIndex + 1) % gNumFrameResources
NextFrameResourceIndex(i) == (i + 1) % gNumFrameResources

\* OnKeyboardInput has an empty body: no key is read and nothing changes.
OnKeyboardInput == UNCHANGED << key1Down, drawnPso >>

\* UpdateCamera derives the eye position and the view matrix from mTheta,
\* mPhi and mRadius.
UpdateCamera == mView' = [theta |-> mTheta, phi |-> mPhi, radius |-> mRadius]

\* Update without the call of UpdateCamera.
UpdateBegin_NoCamera ==
    /\ pc = "idle"
    /\ mCurrentFence < MaxFence
    /\ OnKeyboardInput
    /\ pc' = "upd_advance"
    /\ UNCHANGED << ringVars, waited, eventHandle, fenceVars, gpuVars, cbVars, geoVars, mAllRitems, mView,
                    mCurrBackBuffer, drawCalls, md3dDevice, errVars, cameraVars >>

\* The first statements of Update: OnKeyboardInput and UpdateCamera.
UpdateBegin ==
    /\ pc = "idle"
    /\ mCurrentFence < MaxFence
    /\ OnKeyboardInput
    /\ UpdateCamera
    /\ pc' = "upd_advance"
    /\ UNCHANGED << ringVars, waited, eventHandle, fenceVars, gpuVars, cbVars, geoVars, mAllRitems,
                    mCurrBackBuffer, drawCalls, md3dDevice, errVars, cameraVars >>

\* mCurrFrameResource taken before the ring index advances: it points to
\* the slot of the previous frame.
UpdateAdvance_PointerFirst ==
    /\ pc = "upd_advance"
    /\ mCurrFrameResourceIndex' = NextFrameResourceIndex(mCurrFrameResourceIndex)
    /\ mCurrFrameResource' = mFrameResources(mCurrFrameResourceIndex)
    /\ frame' = frame + 1
    /\ idxHist' = LastN(Append(idxHist, NextFrameResourceIndex(mCurrFrameResourceIndex)),
                        gNumFrameResources + 1)
    /\ waited' = FALSE
    /\ eventHandle' = "none"
    /\ UNCHANGED updates
    /\ pc' = "upd_check"
    /\ UNCHANGED << fenceVars, gpuVars, cbVars, geoVars, mAllRitems, mView, key1Down, drawVars,
                    md3dDevice, errVars, cameraVars >>

\* The ring index advances and mCurrFrameResource follows it.
UpdateAdvance ==
    /\ pc = "upd_advance"
    /\ mCurrFrameResourceIndex' = NextFrameResourceIndex(mCurrFrameResourceIndex)
    /\ mCurrFrameResource' = mFrameResources(mCurrFrameResourceIndex')
    /\ frame' = frame + 1
    /\ idxHist' = LastN(Append(idxHist, NextFrameResourceIndex(mCurrFrameResourceIndex)),
                        gNumFrameResources + 1)
    /\ waited' = FALSE
    /\ eventHandle' = "none"
    /\ UNCHANGED updates
    /\ pc' = "upd_check"
    /\ UNCHANGED << fenceVars, gpuVars, cbVars, geoVars, mAllRitems, mView, key1Down, drawVars,
                    md3dDevice, errVars, cameraVars >>

\* The comparison of the if, inverted.
MustWait_Inverted(slot) == slotFence[slot] # 0 /\ completed > slotFence[slot]

\* The test for the unset marker reversed: a slot never submitted waits too.
MustWait_FirstUseBlocks(slot) == slotFence[slot] = 0 \/ completed < slotFence[slot]

\* The fence test of Update left out: Update never waits.
MustWait_Never(slot) == FALSE

\* The condition of the if: the slot was submitted before and the GPU has
\* not reached its fence value.
MustWait(slot) == slotFence[slot] # 0 /\ completed < slotFence[slot]

\* The event registered for the fence value before the slot's.
WaitOver_OneBehind(slot) == completed >= slotFence[slot] - 1

\* WaitForSingleObject returns once the fence reached the value the event
\* was registered for.
WaitOver(slot) == completed >= slotFence[slot]

\* CreateEventEx returns a handle or, on failure, NULL; the result is not
\* tested.
CreateEventEx == {"valid", "null"}

\* The if, CreateEventEx and ThrowIfFailed(SetEventOnCompletion).  With a
\* NULL event SetEventOnCompletion itself blocks until the fence reached the
\* value.
UpdateCheck ==
    /\ pc = "upd_check"
    /\ IF MustWait(mCurrFrameResource)
       THEN \/ /\ eventHandle' \in CreateEventEx
               /\ pc' = "upd_wait"
               /\ waited' = TRUE
               /\ UNCHANGED errVars
            \/ /\ eventHandle' \in CreateEventEx
               /\ Throw("Update.SetEventOnCompletion")
               /\ UNCHANGED waited
       ELSE /\ pc' = "upd_write"
            /\ UNCHANGED << waited, eventHandle, errVars >>
    /\ UNCHANGED << ringVars, fenceVars, gpuVars, cbVars, geoVars, mAllRitems, mView, key1Down, drawVars,
                    md3dDevice, cameraVars >>

\* WaitForSingleObject with a timeout: it may return before the fence is
\* reached.
UpdateWait_Timeout ==
    /\ pc = "upd_wait"
    /\ pc' = "upd_write"
    /\ UNCHANGED << ringVars, waited, eventHandle, fenceVars, gpuVars, cbVars, geoVars, mAllRitems, mView,
                    key1Down, drawVars, md3dDevice, errVars, cameraVars >>

\* WaitForSingleObject(eventHandle, INFINITE) and CloseHandle; on a NULL
\* handle both fail at once and their results are ignored.
UpdateWait ==
    /\ pc = "upd_wait"
    /\ WaitOver(mCurrFrameResource)
    /\ pc' = "upd_write"
    /\ UNCHANGED << ringVars, waited, eventHandle, fenceVars, gpuVars, cbVars, geoVars, mAllRitems, mView, key1Down, drawVars,
                    md3dDevice, errVars, cameraVars >>

\* The largest member of a non-empty set of numbers.
Last(S) == CHOOSE i \in S : \A j \in S : j <= i

\* Every copy made into element 0, whatever the item's ObjCBIndex.
CopyObjects_ElementZero(copied) ==
    LET At(e) == {i \in copied : i < Len(mAllRitems) /\ e = 0}
    IN /\ objWrites' = [objWrites EXCEPT ![mCurrFrameResource] =
                           [e \in Ritems |-> @[e] + Cardinality(At(e))]]
       /\ ObjectCB' = [ObjectCB EXCEPT ![mCurrFrameResource] =
                          [e \in Ritems |-> IF At(e) = {} THEN @[e]
                                            ELSE mAllRitems[Last(At(e)) + 1].World]]

\* currObjectCB->CopyData(e->ObjCBIndex, objConstants) for the items in
\* copied, numbered from 0 in the order of mAllRitems: element ObjCBIndex of
\* the current slot's ObjectCB receives the World of the item (the last such
\* item in the order of the loop when several name the same element).
CopyObjects(copied) ==
    LET At(e) == {i \in copied : i < Len(mAllRitems) /\ mAllRitems[i + 1].ObjCBIndex = e}
    IN /\ objWrites' = [objWrites EXCEPT ![mCurrFrameResource] =
                           [e \in Ritems |-> @[e] + Cardinality(At(e))]]
       /\ ObjectCB' = [ObjectCB EXCEPT ![mCurrFrameResource] =
                          [e \in Ritems |-> IF At(e) = {} THEN @[e]
                                            ELSE mAllRitems[Last(At(e)) + 1].World]]

\* The decrement moved out of the if: a clean counter goes below 0.
UpdateObjectCBs_DecrementsAlways ==
    /\ CopyObjects({i \in Ritems : NumFramesDirty[i] > 0})
    /\ NumFramesDirty' = [i \in Ritems |-> NumFramesDirty[i] - 1]
    /\ UNCHANGED mAllRitems

\* The upload resets the World of every item it has written to the identity.
UpdateObjectCBs_ResetsWorld ==
    /\ CopyObjects({i \in Ritems : NumFramesDirty[i] > 0})
    /\ NumFramesDirty' = [i \in Ritems |->
                            IF NumFramesDirty[i] > 0 THEN NumFramesDirty[i] - 1
                            ELSE NumFramesDirty[i]]
    /\ mAllRitems' = [k \in 1 .. Len(mAllRitems) |->
                        IF NumFramesDirty[mAllRitems[k].ObjCBIndex] > 0
                        THEN [mAllRitems[k] EXCEPT !.World = 0]
                        ELSE mAllRitems[k]]

\* The dirty test off by one: the last owed slot is never written.
UpdateObjectCBs_OffByOne ==
    /\ CopyObjects({i \in Ritems : NumFramesDirty[i] > 1})
    /\ NumFramesDirty' = [i \in Ritems |->
                            IF NumFramesDirty[i] > 1 THEN NumFramesDirty[i] - 1
                            ELSE NumFramesDirty[i]]
    /\ UNCHANGED mAllRitems

\* The copy made outside the dirty test.
UpdateObjectCBs_AlwaysWrite ==
    /\ CopyObjects(Ritems)
    /\ NumFramesDirty' = [i \in Ritems |->
                            IF NumFramesDirty[i] > 0 THEN NumFramesDirty[i] - 1
                            ELSE NumFramesDirty[i]]
    /\ UNCHANGED mAllRitems

\* Every item with NumFramesDirty > 0 is copied into the current slot's
\* ObjectCB and its counter decremented.
UpdateObjectCBs ==
    /\ CopyObjects({i \in Ritems : NumFramesDirty[i] > 0})
    /\ NumFramesDirty' = [i \in Ritems |->
                            IF NumFramesDirty[i] > 0 THEN NumFramesDirty[i] - 1
                            ELSE NumFramesDirty[i]]
    /\ UNCHANGED mAllRitems

\* The same for the materials and the current slot's MaterialCB.
\* The material upload without the decrement.
UpdateMaterialCBs_NoDecrement ==
    /\ matWrites' = [matWrites EXCEPT ![mCurrFrameResource] =
                        [m \in Materials |-> IF MatNumFramesDirty[m] > 0 THEN @[m] + 1 ELSE @[m]]]
    /\ UNCHANGED MatNumFramesDirty

\* The loop over mMaterials: a dirty material is copied into the current
\* slot at its MatCBIndex and its counter is decremented.
UpdateMaterialCBs ==
    /\ matWrites' = [matWrites EXCEPT ![mCurrFrameResource] =
                        [m \in Materials |-> IF MatNumFramesDirty[m] > 0 THEN @[m] + 1 ELSE @[m]]]
    /\ MatNumFramesDirty' = [m \in Materials |->
                               IF MatNumFramesDirty[m] > 0 THEN MatNumFramesDirty[m] - 1
                               ELSE MatNumFramesDirty[m]]

\* The pass constants guarded by a counter like NumFramesDirty: copied only
\* during the first gNumFrameResources frames.
UpdateMainPassCB_WhileDirty ==
    passFrame' = IF frame <= gNumFrameResources
                 THEN [passFrame EXCEPT ![mCurrFrameResource] = frame]
                 ELSE passFrame

\* The pass constants of this frame are copied into the current slot's PassCB.
UpdateMainPassCB ==
    passFrame' = [passFrame EXCEPT ![mCurrFrameResource] = frame]

\* AnimateMaterials (empty), UpdateObjectCBs, UpdateMaterialCBs,
\* UpdateMainPassCB; Run then calls Draw.
UpdateWrite ==
    /\ pc = "upd_write"
    /\ UpdateObjectCBs
    /\ UpdateMaterialCBs
    /\ UpdateMainPassCB
    /\ updates' = updates + 1
    /\ pc' = "draw_reset"
    /\ UNCHANGED << mCurrFrameResourceIndex, mCurrFrameResource, idxHist, frame, waited,
                    eventHandle, geoVars,
                    fenceVars, gpuVars, key1Down, drawVars, md3dDevice, mView,
                    errVars, cameraVars >>

\* ------------------------------------------------------------- Draw
\* The pipeline state the command list is reset with.
DrawPso == "opaque"

\* cmdListAlloc->Reset() and mCommandList->Reset(..., mPSOs["opaque"]).
DrawReset ==
    /\ pc = "draw_reset"
    /\ \/ /\ drawnPso' = DrawPso
          /\ drawCalls' = << >>
          /\ pc' = "draw_record"
          /\ UNCHANGED errVars
       \/ /\ Throw("Draw.AllocatorReset")
          /\ UNCHANGED << drawnPso, drawCalls >>
       \/ /\ Throw("Draw.CommandListReset")
          /\ UNCHANGED << drawnPso, drawCalls >>
    /\ UNCHANGED << ringVars, waited, eventHandle, fenceVars, gpuVars, cbVars, geoVars, mAllRitems, mView,
                    key1Down, mCurrBackBuffer, md3dDevice, cameraVars >>

\* The recorded commands up to and including Close.
DrawRecord ==
    /\ pc = "draw_record"
    /\ \/ /\ drawCalls' = DrawRenderItems(mOpaqueRitems)
          /\ pc' = "draw_submit"
          /\ UNCHANGED errVars
       \/ /\ Throw("Draw.Close")
          /\ UNCHANGED drawCalls
    /\ UNCHANGED << ringVars, waited, eventHandle, fenceVars, gpuVars, cbVars, geoVars, mAllRitems, mView,
                    key1Down, drawnPso, mCurrBackBuffer, md3dDevice, cameraVars >>

\* ExecuteCommandLists followed at once by the fence value and its Signal,
\* before Present.
DrawSubmit_SignalsEarly ==
    /\ pc = "draw_submit"
    /\ mCurrentFence' = mCurrentFence + 1
    /\ slotFence' = [slotFence EXCEPT ![mCurrFrameResource] = mCurrentFence + 1]
    /\ gpuQueue' = Append(Append(gpuQueue, ExecCmd(mCurrFrameResource)),
                          SignalCmd(mCurrentFence + 1))
    /\ pc' = "draw_present"
    /\ UNCHANGED << ringVars, waited, eventHandle, completed, cbVars, geoVars, mAllRitems, mView,
                    key1Down, drawVars, md3dDevice, errVars, cameraVars >>

\* ExecuteCommandLists: the GPU will read the current slot.
DrawSubmit ==
    /\ pc = "draw_submit"
    /\ gpuQueue' = Append(gpuQueue, ExecCmd(mCurrFrameResource))
    /\ pc' = "draw_present"
    /\ UNCHANGED << ringVars, waited, eventHandle, fenceVars, completed, cbVars, geoVars, mAllRitems, mView, key1Down, drawVars,
                    md3dDevice, errVars, cameraVars >>

\* ThrowIfFailed(Present) and the swap of the back buffer index.
DrawPresent ==
    /\ pc = "draw_present"
    /\ \/ /\ mCurrBackBuffer' = (mCurrBackBuffer + 1) % SwapChainBufferCount
          /\ pc' = "draw_fence"
          /\ UNCHANGED errVars
       \/ /\ Throw("Draw.Present")
          /\ UNCHANGED mCurrBackBuffer
    /\ UNCHANGED << ringVars, waited, eventHandle, fenceVars, gpuVars, cbVars, geoVars, mAllRitems, mView,
                    key1Down, drawnPso, drawCalls, md3dDevice, cameraVars >>

\* The slot records mCurrentFence++ instead of ++mCurrentFence.
DrawFence_StaleValue ==
    /\ pc = "draw_fence"
    /\ mCurrentFence' = mCurrentFence + 1
    /\ slotFence' = [slotFence EXCEPT ![mCurrFrameResource] = mCurrentFence]
    /\ gpuQueue' = Append(gpuQueue, SignalCmd(mCurrentFence + 1))
    /\ pc' = "idle"
    /\ UNCHANGED << ringVars, waited, eventHandle, completed, cbVars, geoVars, mAllRitems, mView, key1Down, drawVars, md3dDevice,
                    errVars, cameraVars >>

\* mCurrFrameResource->Fence = ++mCurrentFence and Signal.
DrawFence ==
    /\ pc = "draw_fence"
    /\ mCurrentFence' = mCurrentFence + 1
    /\ slotFence' = [slotFence EXCEPT ![mCurrFrameResource] = mCurrentFence + 1]
    /\ gpuQueue' = Append(gpuQueue, SignalCmd(mCurrentFence + 1))
    /\ pc' = "idle"
    /\ UNCHANGED << ringVars, waited, eventHandle, completed, cbVars, geoVars, mAllRitems, mView, key1Down, drawVars, md3dDevice,
                    errVars, cameraVars >>

\* ------------------------------------------------------- leaving WinMain
\* WM_QUIT: Run returns.
Quit ==
    /\ pc = "idle"
    /\ pc' = "dtor"
    /\ UNCHANGED << ringVars, waited, eventHandle, fenceVars, gpuVars, cbVars, geoVars, mAllRitems, mView, key1Down, drawVars,
                    md3dDevice, errVars, cameraVars >>

\* The destructor returning without FlushCommandQueue.
DestructorFlush_Skipped ==
    /\ pc = "dtor"
    /\ md3dDevice
    /\ pc' = "destroyed"
    /\ UNCHANGED << ringVars, waited, eventHandle, fenceVars, gpuVars, cbVars, geoVars, mAllRitems, mView,
                    key1Down, drawVars, md3dDevice, errVars, cameraVars >>

\* ~TexColumnsApp: flush the command queue if the device exists.
DestructorFlush ==
    /\ md3dDevice
    /\ FlushSignal("dtor", "dtor_wait")

DestructorNoDevice ==
    /\ pc = "dtor"
    /\ ~md3dDevice
    /\ pc' = "destroyed"
    /\ UNCHANGED << ringVars, waited, eventHandle, fenceVars, gpuVars, cbVars, geoVars, mAllRitems, mView, key1Down, drawVars,
                    md3dDevice, errVars, cameraVars >>

DestructorWait == FlushWait("dtor_wait", "destroyed")

\* The handler returning without the message box.
WinMainCatch_Silent ==
    /\ pc = "destroyed"
    /\ failedAt # "none"
    /\ pc' = "exited"
    /\ UNCHANGED << ringVars, waited, eventHandle, fenceVars, gpuVars, cbVars, geoVars, mAllRitems, mView, key1Down, drawVars,
                    md3dDevice, errVars, cameraVars >>

\* catch (DxException&): the message box "HR Failed", then return 0.
WinMainCatch ==
    /\ pc = "destroyed"
    /\ failedAt # "none"
    /\ diagnostic' = TRUE
    /\ pc' = "exited"
    /\ UNCHANGED << ringVars, waited, eventHandle, fenceVars, gpuVars, cbVars, geoVars, mAllRitems, mView, key1Down, drawVars,
                    md3dDevice, failedAt, cameraVars >>

\* return 0 / return theApp.Run() without an exception.
WinMainReturn ==
    /\ pc = "destroyed"
    /\ failedAt = "none"
    /\ pc' = "exited"
    /\ UNCHANGED << ringVars, waited, eventHandle, fenceVars, gpuVars, cbVars, geoVars, mAllRitems, mView, key1Down, drawVars,
                    md3dDevice, errVars, cameraVars >>

\* ------------------------------------------------------- mouse messages
\* n / d rounded to the nearest integer.
RoundDiv(n, d) == (n + (d \div 2)) \div d

\* XMConvertToRadians(0.25f * pixels): degrees * (Pi / 180), in 10^-5 radian.
QuarterDegreesToRadians(pixels) == RoundDiv(pixels * Pi, 4 * 180)

\* 0.05f * pixels, in 1/100 units.
ZoomUnits(pixels) == 5 * pixels

\* MathHelper::Clamp
Clamp(x, low, high) == IF x < low THEN low ELSE IF x > high THEN high ELSE x

OnMouseDown(btnState, x, y) ==
    /\ mLastMousePos' = [x |-> x, y |-> y]
    /\ captured' = TRUE
    /\ UNCHANGED << mTheta, mPhi, mRadius >>

OnMouseUp(btnState, x, y) ==
    /\ captured' = FALSE
    /\ UNCHANGED << mTheta, mPhi, mRadius, mLastMousePos >>

\* mPhi left unclamped.
OnMouseMove_NoPhiClamp(btnState, x, y) ==
    /\ IF MK_LBUTTON \in btnState
       THEN /\ mTheta' = mTheta + QuarterDegreesToRadians(x - mLastMousePos.x)
            /\ mPhi' = mPhi + QuarterDegreesToRadians(y - mLastMousePos.y)
            /\ UNCHANGED mRadius
       ELSE IF MK_RBUTTON \in btnState
       THEN /\ mRadius' = Clamp(mRadius + (ZoomUnits(x - mLastMousePos.x)
                                           - ZoomUnits(y - mLastMousePos.y)),
                                RadiusMin, RadiusMax)
            /\ UNCHANGED << mTheta, mPhi >>
       ELSE UNCHANGED << mTheta, mPhi, mRadius >>
    /\ mLastMousePos' = [x |-> x, y |-> y]
    /\ UNCHANGED captured

\* The horizontal delta applied to mPhi and the vertical one to mTheta.
OnMouseMove_SwapAxes(btnState, x, y) ==
    /\ IF MK_LBUTTON \in btnState
       THEN /\ mTheta' = mTheta + QuarterDegreesToRadians(y - mLastMousePos.y)
            /\ mPhi' = Clamp(mPhi + QuarterDegreesToRadians(x - mLastMousePos.x),
                             PhiMin, PhiMax)
            /\ UNCHANGED mRadius
       ELSE IF MK_RBUTTON \in btnState
       THEN /\ mRadius' = Clamp(mRadius + (ZoomUnits(x - mLastMousePos.x)
                                           - ZoomUnits(y - mLastMousePos.y)),
                                RadiusMin, RadiusMax)
            /\ UNCHANGED << mTheta, mPhi >>
       ELSE UNCHANGED << mTheta, mPhi, mRadius >>
    /\ mLastMousePos' = [x |-> x, y |-> y]
    /\ UNCHANGED captured

\* The zoom computed as dx + dy.
OnMouseMove_ZoomSum(btnState, x, y) ==
    /\ IF MK_LBUTTON \in btnState
       THEN /\ mTheta' = mTheta + QuarterDegreesToRadians(x - mLastMousePos.x)
            /\ mPhi' = Clamp(mPhi + QuarterDegreesToRadians(y - mLastMousePos.y),
                             PhiMin, PhiMax)
            /\ UNCHANGED mRadius
       ELSE IF MK_RBUTTON \in btnState
       THEN /\ mRadius' = Clamp(mRadius + (ZoomUnits(x - mLastMousePos.x)
                                           + ZoomUnits(y - mLastMousePos.y)),
                                RadiusMin, RadiusMax)
            /\ UNCHANGED << mTheta, mPhi >>
       ELSE UNCHANGED << mTheta, mPhi, mRadius >>
    /\ mLastMousePos' = [x |-> x, y |-> y]
    /\ UNCHANGED captured

\* The else before the right-button test dropped: with both buttons held the
\* move rotates and zooms.
OnMouseMove_BothActions(btnState, x, y) ==
    /\ IF MK_LBUTTON \in btnState
       THEN /\ mTheta' = mTheta + QuarterDegreesToRadians(x - mLastMousePos.x)
            /\ mPhi' = Clamp(mPhi + QuarterDegreesToRadians(y - mLastMousePos.y),
                             PhiMin, PhiMax)
       ELSE UNCHANGED << mTheta, mPhi >>
    /\ IF MK_RBUTTON \in btnState
       THEN mRadius' = Clamp(mRadius + (ZoomUnits(x - mLastMousePos.x)
                                        - ZoomUnits(y - mLastMousePos.y)),
                             RadiusMin, RadiusMax)
       ELSE UNCHANGED mRadius
    /\ mLastMousePos' = [x |-> x, y |-> y]
    /\ UNCHANGED captured

OnMouseMove(btnState, x, y) ==
    /\ IF MK_LBUTTON \in btnState
       THEN /\ mTheta' = mTheta + QuarterDegreesToRadians(x - mLastMousePos.x)
            /\ mPhi' = Clamp(mPhi + QuarterDegreesToRadians(y - mLastMousePos.y),
                             PhiMin, PhiMax)
            /\ UNCHANGED mRadius
       ELSE IF MK_RBUTTON \in btnState
       THEN /\ mRadius' = Clamp(mRadius + (ZoomUnits(x - mLastMousePos.x)
                                           - ZoomUnits(y - mLastMousePos.y)),
                                RadiusMin, RadiusMax)
            /\ UNCHANGED << mTheta, mPhi >>
       ELSE UNCHANGED << mTheta, mPhi, mRadius >>
    /\ mLastMousePos' = [x |-> x, y |-> y]
    /\ UNCHANGED captured

\* The message pump of Run dispatches the mouse messages between two frames.
notCameraVars == << pc, ringVars, waited, eventHandle, fenceVars, gpuVars, cbVars, geoVars, mAllRitems, mView, key1Down,
                    drawVars, md3dDevice, errVars >>

MouseDown ==
    /\ pc = "idle"
    /\ nMouseEvents < MaxMouseEvents
    /\ nMouseEvents' = nMouseEvents + 1
    /\ \E b \in BtnStates \ {{}}, x \in MouseXs, y \in MouseYs : OnMouseDown(b, x, y)
    /\ UNCHANGED notCameraVars

MouseUp ==
    /\ pc = "idle"
    /\ nMouseEvents < MaxMouseEvents
    /\ nMouseEvents' = nMouseEvents + 1
    /\ \E b \in BtnStates, x \in MouseXs, y \in MouseYs : OnMouseUp(b, x, y)
    /\ UNCHANGED notCameraVars

MouseMove ==
    /\ pc = "idle"
    /\ nMouseEvents < MaxMouseEvents
    /\ nMouseEvents' = nMouseEvents + 1
    /\ \E b \in BtnStates, x \in MouseXs, y \in MouseYs : OnMouseMove(b, x, y)
    /\ UNCHANGED notCameraVars

\* The application between two frames, right after Initialize returned.
InitCamera ==
    /\ pc = "idle"
    /\ mCurrFrameResourceIndex = 0
    /\ mCurrFrameResource = nullptr
    /\ slotFence = [s \in Slots |-> 0]
    /\ mCurrentFence = 1
    /\ completed = 1
    /\ gpuQueue = << >>
    /\ NumFramesDirty = [i \in Ritems |-> gNumFrameResources]
    /\ MatNumFramesDirty = [m \in Materials |-> gNumFrameResources]
    /\ ObjectCB = [s \in Slots |-> [e \in Ritems |-> Unwritten]]
    /\ objWrites = [s \in Slots |-> [i \in Ritems |-> 0]]
    /\ matWrites = [s \in Slots |-> [m \in Materials |-> 0]]
    /\ passFrame = [s \in Slots |-> 0]
    /\ frame = 0
    /\ updates = 0
    /\ idxHist = << 0 >>
    /\ waited = FALSE
    /\ eventHandle = "none"
    /\ geoGen = GeneratedMeshes
    /\ mGeometries = BuildShapeGeometry
    /\ mAllRitems = BuildRenderItems
    /\ drawCalls = << >>
    /\ key1Down = FALSE
    /\ drawnPso = "none"
    /\ mCurrBackBuffer = 0
    /\ md3dDevice = TRUE
    /\ mView = Identity4x4
    /\ failedAt = "none"
    /\ diagnostic = FALSE
    /\ mTheta = ThetaInit
    /\ mPhi = PhiInit
    /\ mRadius = RadiusInit
    /\ mLastMousePos \in [x : MouseXs, y : MouseYs]
    /\ captured = FALSE
    /\ nMouseEvents = 0

NextCamera ==
    \/ MouseDown
    \/ MouseUp
    \/ MouseMove

SpecCamera == InitCamera /\ [][NextCamera]_vars

Next ==
    \/ InitializeBase
    \/ InitializeBaseFails
    \/ InitializeBuild
    \/ InitializeSubmit
    \/ InitializeFlush
    \/ InitializeDone
    \/ UpdateBegin
    \/ UpdateAdvance
    \/ UpdateCheck
    \/ UpdateWait
    \/ UpdateWrite
    \/ DrawReset
    \/ DrawRecord
    \/ DrawSubmit
    \/ DrawPresent
    \/ DrawFence
    \/ GpuStep
    \/ KeyChange
    \/ Quit
    \/ DestructorFlush
    \/ DestructorNoDevice
    \/ DestructorWait
    \/ WinMainCatch
    \/ WinMainReturn

Spec == Init /\ [][Next]_vars

\* Initialize after D3DApp::Initialize succeeded, the sizes of the generated
\* meshes left open.
InitGeometry ==
    /\ pc = "init_build"
    /\ mCurrFrameResourceIndex = 0
    /\ mCurrFrameResource = nullptr
    /\ slotFence = [s \in Slots |-> 0]
    /\ mCurrentFence = 0
    /\ completed = 0
    /\ gpuQueue = << >>
    /\ NumFramesDirty = [i \in Ritems |-> gNumFrameResources]
    /\ MatNumFramesDirty = [m \in Materials |-> gNumFrameResources]
    /\ ObjectCB = [s \in Slots |-> [e \in Ritems |-> Unwritten]]
    /\ objWrites = [s \in Slots |-> [i \in Ritems |-> 0]]
    /\ matWrites = [s \in Slots |-> [m \in Materials |-> 0]]
    /\ passFrame = [s \in Slots |-> 0]
    /\ frame = 0
    /\ updates = 0
    /\ idxHist = << 0 >>
    /\ waited = FALSE
    /\ eventHandle = "none"
    /\ geoGen \in [Shapes -> [Vertices : 1 .. MaxMeshSize, Indices32 : 1 .. MaxMeshSize]]
    /\ mGeometries = NoGeometry
    /\ mAllRitems = << >>
    /\ drawCalls = << >>
    /\ key1Down = FALSE
    /\ drawnPso = "none"
    /\ mCurrBackBuffer = 0
    /\ md3dDevice = TRUE
    /\ mView = Identity4x4
    /\ failedAt = "none"
    /\ diagnostic = FALSE
    /\ mTheta = ThetaInit
    /\ mPhi = PhiInit
    /\ mRadius = RadiusInit
    /\ mLastMousePos \in [x : MouseXs, y : MouseYs]
    /\ captured = FALSE
    /\ nMouseEvents = 0

\* The build steps of Initialize.
NextGeometry == InitializeBuild

SpecGeometry == InitGeometry /\ [][NextGeometry]_vars

\* The statements of Update and Draw after the first of Update: one thread
\* runs them in sequence.
FrameStep ==
    \/ UpdateAdvance
    \/ UpdateCheck
    \/ UpdateWait
    \/ UpdateWrite
    \/ DrawReset
    \/ DrawRecord
    \/ DrawSubmit
    \/ DrawPresent
    \/ DrawFence

\* The vertical mouse positions delivered while frames are running: the
\* far position that drives phi into its clamp is left to the camera alone.
SceneMouseYs == {0, 20}

\* The start of a frame, taken only while the fence is below MaxSceneFence.
SceneUpdateBegin ==
    /\ mCurrentFence < MaxSceneFence
    /\ UpdateBegin

\* Mouse messages dispatched by the message loop between two frames.
SceneMouseDown ==
    /\ nMouseEvents < MaxSceneMouseEvents
    /\ MouseDown
    /\ mLastMousePos'.y \in SceneMouseYs

SceneMouseUp ==
    /\ nMouseEvents < MaxSceneMouseEvents
    /\ MouseUp

SceneMouseMove ==
    /\ nMouseEvents < MaxSceneMouseEvents
    /\ MouseMove
    /\ mLastMousePos'.y \in SceneMouseYs

\* Frames, GPU and mouse messages together; the '1' key is left as it is.
NextScene ==
    \/ InitializeBase
    \/ InitializeBaseFails
    \/ InitializeBuild
    \/ InitializeSubmit
    \/ InitializeFlush
    \/ InitializeDone
    \/ SceneUpdateBegin
    \/ FrameStep
    \/ GpuStep
    \/ Quit
    \/ DestructorFlush
    \/ DestructorNoDevice
    \/ DestructorWait
    \/ WinMainCatch
    \/ WinMainReturn
    \/ SceneMouseDown
    \/ SceneMouseUp
    \/ SceneMouseMove

SpecScene == Init /\ [][NextScene]_vars

\* The program with a GPU that eventually executes what was queued and a
\* thread that keeps executing the frame it has begun.
SpecFair == Init /\ [][Next]_vars /\ WF_vars(GpuStep) /\ WF_vars(FrameStep)

\* ===================================================================
\* Properties
\* ===================================================================

\* C1: whenever Update is about to write constants into the current frame
\* slot, the GPU has finished every command list submitted against that slot:
\* the fence's completed value has reached the slot's recorded Fence and no
\* command list reading the slot is still queued.
C1_SlotReuseSafe ==
    pc = "upd_write" =>
        /\ completed >= slotFence[mCurrFrameResourceIndex]
        /\ ~GpuMayRead(mCurrFrameResourceIndex)

\* C1 witness: Update blocked on a slot that had been submitted before and is
\* now about to overwrite it.
C1_Witness ==
    /\ pc = "upd_write"
    /\ waited
    /\ slotFence[mCurrFrameResourceIndex] # 0

\* The slots written by the first k Updates, starting from ring index 0.
SlotsOfFirst(k) == { j % gNumFrameResources : j \in 1 .. k }

\* C2: during the first N = 3 Updates every instance is written into each
\* frame slot exactly once, one new slot per Update, and its dirty counter
\* goes from N down to 0, reaching 0 after exactly N Updates.
C2_EachSlotOnce ==
    updates <= gNumFrameResources =>
        \A i \in Ritems :
            /\ NumFramesDirty[i] = gNumFrameResources - updates
            /\ \A s \in Slots :
                 objWrites[s][i] = IF s \in SlotsOfFirst(updates) THEN 1 ELSE 0

\* C2 witness: three Updates done, every slot written once, counters at 0.
C2_Witness ==
    /\ updates = gNumFrameResources
    /\ \A i \in Ritems : NumFramesDirty[i] = 0
    /\ \A s \in Slots : \A i \in Ritems : objWrites[s][i] = 1

\* C3: once an instance's dirty counter is 0, no later step writes the
\* instance's per-object constants into any slot, and the counter stays 0.
C3_NoWriteWhenClean ==
    [][\A i \in Ritems :
          NumFramesDirty[i] = 0 =>
              /\ NumFramesDirty'[i] = 0
              /\ \A s \in Slots : objWrites'[s][i] = objWrites[s][i]]_vars

\* C3 witness: an Update ran after the counters had reached 0.
C3_Witness ==
    /\ updates > gNumFrameResources
    /\ \A i \in Ritems : NumFramesDirty[i] = 0
    /\ \A s \in Slots : \A i \in Ritems : objWrites[s][i] = 1

\* C4: the ring index is cyclic with period 3: it is always in 0..2, every
\* Update moves it to (previous + 1) mod 3, from 0 the slots are used in the
\* order 1, 2, 0, ..., after 3 consecutive Updates it is back at its starting
\* value and 3 consecutive frames use 3 different slots.
C4_RingCyclic ==
    /\ mCurrFrameResourceIndex \in 0 .. 2
    /\ mCurrFrameResourceIndex = frame % 3
    /\ idxHist[Len(idxHist)] = mCurrFrameResourceIndex
    /\ \A k \in 1 .. (Len(idxHist) - 1) : idxHist[k + 1] = (idxHist[k] + 1) % 3
    /\ Len(idxHist) = 4 =>
          /\ idxHist[4] = idxHist[1]
          /\ Cardinality({idxHist[2], idxHist[3], idxHist[4]}) = 3

\* C4 witness: more than one full turn of the ring.
C4_Witness ==
    /\ frame >= 5
    /\ Len(idxHist) = 4

\* C5: completion markers are monotonic: mCurrentFence only ever grows by 1;
\* when Draw records a slot's Fence it records the freshly incremented value,
\* larger than every value recorded before, and signals exactly that value;
\* the completed value never decreases and never exceeds the last value the
\* CPU signalled.
C5_FenceMonotonic ==
    [][/\ mCurrentFence' \in {mCurrentFence, mCurrentFence + 1}
       /\ completed' >= completed
       /\ completed' <= mCurrentFence'
       /\ (pc = "draw_fence" /\ pc' = "idle") =>
             /\ mCurrentFence' = mCurrentFence + 1
             /\ slotFence'[mCurrFrameResourceIndex] = mCurrentFence'
             /\ \A s \in Slots : slotFence'[mCurrFrameResourceIndex] > slotFence[s]
             /\ gpuQueue' = Append(gpuQueue, SignalCmd(mCurrentFence'))
       /\ slotFence' # slotFence => (pc = "draw_fence" /\ pc' = "idle")]_vars

\* C5 witness: every slot has been submitted at least twice and the GPU has
\* completed frames.
C5_Witness ==
    /\ \A s \in Slots : slotFence[s] > gNumFrameResources
    /\ completed > gNumFrameResources

\* C6: after any sequence of mouse messages the polar angle stays inside
\* [0.1, Pi - 0.1], hence strictly between the poles 0 and Pi, and the
\* camera distance inside [5, 150].
C6_CameraClamped ==
    /\ mPhi >= 10000
    /\ mPhi <= Pi - 10000
    /\ mPhi > 0
    /\ mPhi < Pi
    /\ mRadius >= 500
    /\ mRadius <= 15000

\* C6 witness: drags large enough to hit a bound of each range.
C6_Witness ==
    /\ nMouseEvents > 0
    /\ mPhi = Pi - 10000
    /\ mRadius = 500

\* delta (10^-5 radian) is 0.25 * pixels degrees, up to rounding.
IsQuarterDegrees(delta, pixels) == (720 * delta - pixels * Pi) \in -360 .. 360

\* C7: a mouse move with the left button held adds 0.25*dx degrees to theta
\* and 0.25*dy degrees to phi, phi then clamped to [0.1, Pi - 0.1], and
\* leaves the radius unchanged; from the initial camera a left-drag of
\* (40, 0) pixels adds 10 degrees (Pi / 18) to theta and changes nothing else.
C7_LeftDragRotates ==
    [][\A b \in BtnStates, x \in MouseXs, y \in MouseYs :
          (MK_LBUTTON \in b /\ OnMouseMove(b, x, y)) =>
              LET dx == x - mLastMousePos.x
                  dy == y - mLastMousePos.y
              IN /\ IsQuarterDegrees(mTheta' - mTheta, dx)
                 /\ \/ /\ IsQuarterDegrees(mPhi' - mPhi, dy)
                       /\ mPhi' \in 10000 .. (Pi - 10000)
                    \/ /\ mPhi' = 10000
                       /\ 720 * (10000 - mPhi) - dy * Pi >= -360
                    \/ /\ mPhi' = Pi - 10000
                       /\ 720 * (Pi - 10000 - mPhi) - dy * Pi <= 360
                 /\ mRadius' = mRadius
                 /\ (dx = 40 /\ dy = 0 /\ mTheta = 471239 /\ mPhi = 62832
                        /\ mRadius = 10000) =>
                       /\ mTheta' = 471239 + 17453
                       /\ mPhi' = 62832
                       /\ mRadius' = 10000]_vars

\* C7 witness: the camera after the left-drag of (40, 0) from its initial
\* position.
C7_Witness ==
    /\ nMouseEvents = 1
    /\ mLastMousePos = [x |-> 40, y |-> 0]
    /\ mTheta = 471239 + 17453
    /\ mPhi = 62832
    /\ mRadius = 10000

DrawRecorded == pc \in {"draw_record", "draw_submit", "draw_present", "draw_fence"}

\* C9: a frame drawn while the '1' key is held is drawn in wireframe mode,
\* a frame drawn while it is not held is drawn solid.
C9_WireframeWhileKeyHeld ==
    DrawRecorded => drawnPso = IF key1Down THEN "wireframe" ELSE "opaque"

\* The steps after which the process can only tear down and exit.
Stopped == {"dtor", "dtor_wait", "destroyed", "exited"}

\* C10: a failure of a checked call of Initialize, Update or Draw is fatal:
\* the failing step does nothing else, the thread goes straight to teardown,
\* from then on no frame is updated, recorded, submitted or presented and the
\* failed call is not retried, and the process exits only after the
\* diagnostic was shown.
C10_FailureIsFatal ==
    [][/\ (failedAt = "none" /\ failedAt' # "none") =>
             /\ pc' \in Stopped
             /\ UNCHANGED << ringVars, slotFence, mCurrentFence, gpuVars, cbVars, drawVars >>
       /\ failedAt # "none" =>
             /\ failedAt' = failedAt
             /\ pc \in Stopped
             /\ pc' \in Stopped
             /\ UNCHANGED << ringVars, slotFence, cbVars, drawVars >>
             /\ \A k \in 1 .. Len(gpuQueue') :
                   gpuQueue'[k].kind = "exec" =>
                       \E j \in 1 .. Len(gpuQueue) : gpuQueue[j] = gpuQueue'[k]
       /\ (pc' = "exited" /\ failedAt' # "none") => diagnostic']_vars

\* C10 witness: Present failed in a later frame and the process has exited
\* after showing the diagnostic.
C10_Witness ==
    /\ pc = "exited"
    /\ failedAt = "Draw.Present"
    /\ frame > gNumFrameResources
    /\ diagnostic

\* C11: a failure of the wait of Update is fatal, the creation of the event
\* included: once CreateEventEx returned NULL the thread is either still
\* inside the wait or has stopped with a recorded failure; it never goes on
\* to write constants, draw or finish the frame.
C11_EventFailureIsFatal ==
    eventHandle = "null" =>
        \/ pc = "upd_wait"
        \/ pc \in Stopped /\ failedAt # "none"

\* C12: once the destructor has returned with a device, so that the members
\* (frame resources, geometry, textures, heaps) are released, the flush has
\* completed: the GPU has nothing queued and has reached the last fence value.
C12_FlushBeforeRelease ==
    (pc \in {"destroyed", "exited"} /\ md3dDevice) =>
        /\ gpuQueue = << >>
        /\ completed = mCurrentFence

\* C12 witness: the destructor has returned after frames were drawn and after
\* Update had to wait for the GPU at least once.
C12_Witness ==
    /\ pc = "destroyed"
    /\ md3dDevice
    /\ frame > gNumFrameResources
    /\ waited
    /\ completed = mCurrentFence

\* The pc values of Draw after the commands of the frame were recorded.
Recorded == {"draw_submit", "draw_present", "draw_fence"}

\* C13: in every frame, once Draw has recorded its commands, every item of
\* the scene table has exactly one indexed draw, no draw belongs to anything
\* else, and the draw uses the item's own IndexCount, StartIndexLocation and
\* BaseVertexLocation.
C13_OneDrawPerItem ==
    pc \in Recorded =>
        /\ Len(mAllRitems) = NumRitems
        /\ \A k \in 1 .. Len(drawCalls) : drawCalls[k].item \in 1 .. Len(mAllRitems)
        /\ \A i \in 1 .. Len(mAllRitems) :
              /\ Cardinality({k \in 1 .. Len(drawCalls) : drawCalls[k].item = i}) = 1
              /\ \A k \in 1 .. Len(drawCalls) :
                    drawCalls[k].item = i =>
                        /\ drawCalls[k].IndexCount = mAllRitems[i].IndexCount
                        /\ drawCalls[k].StartIndexLocation = mAllRitems[i].StartIndexLocation
                        /\ drawCalls[k].BaseVertexLocation = mAllRitems[i].BaseVertexLocation

\* C13 witness: a later frame has recorded draws of two items that lie in
\* different sub-ranges of the buffers.
C13_Witness ==
    /\ pc = "draw_submit"
    /\ frame > 1
    /\ Len(drawCalls) >= 25
    /\ drawCalls[1].item = 1
    /\ drawCalls[25].item = 25
    /\ drawCalls[1].StartIndexLocation # drawCalls[25].StartIndexLocation
    /\ drawCalls[1].BaseVertexLocation # drawCalls[25].BaseVertexLocation

\* The pc values of Draw.
Drawing == {"draw_reset", "draw_record"} \cup Recorded

\* C14: every Update writes the pass constants into the current slot, so
\* whenever Draw runs the current slot holds the pass constants computed in
\* this very frame.
C14_PassConstantsFresh ==
    pc \in Drawing => passFrame[mCurrFrameResourceIndex] = frame

\* C14 witness: a slot is drawn on its second use, with the pass constants of
\* the current frame, while another slot still holds those of an older frame.
C14_Witness ==
    /\ pc = "draw_submit"
    /\ frame > gNumFrameResources
    /\ passFrame[mCurrFrameResourceIndex] = frame
    /\ \E s \in Slots : passFrame[s] > 0 /\ passFrame[s] < frame

\* C15: when Update tests the current slot, a recorded Fence of 0 sends it
\* straight on to write the constants, whatever the completed value is; a
\* nonzero Fence above the completed value makes it wait (or fail in
\* SetEventOnCompletion), and the wait is left only once the GPU has reached
\* that Fence.
C15_WaitSkippedOnFirstUse ==
    [][/\ (pc = "upd_check" /\ pc' # pc) =>
             /\ slotFence[mCurrFrameResourceIndex] = 0 => pc' = "upd_write"
             /\ (/\ slotFence[mCurrFrameResourceIndex] # 0
                 /\ slotFence[mCurrFrameResourceIndex] > completed) =>
                    pc' \in {"upd_wait", "dtor"}
       /\ (pc = "upd_wait" /\ pc' # pc) =>
             completed >= slotFence[mCurrFrameResourceIndex]]_vars

\* C15 witness: the first three frames used slots never submitted before
\* while the GPU had already completed other work; the fourth frame finds a
\* nonzero Fence the GPU has not reached, and Update is blocked.
C15_Witness ==
    /\ pc = "upd_wait"
    /\ frame = gNumFrameResources + 1
    /\ slotFence[mCurrFrameResourceIndex] # 0
    /\ slotFence[mCurrFrameResourceIndex] > completed
    /\ completed > 0

\* The pc values of a frame that has begun: Update after the index advance,
\* and Draw.
InFrame == {"upd_check", "upd_wait", "upd_write"} \cup Drawing

\* C16: the wait has no timeout and cannot be cancelled: as long as the GPU
\* has not reached the slot's Fence the thread stays in the wait and nothing
\* of the frame happens (no constant is written, nothing is submitted, no
\* fence value is taken).  With a GPU that eventually executes everything
\* queued, every Update that waits eventually goes on, and every frame that
\* has begun is eventually drawn and returns to the message loop, unless a
\* checked call fails.
C16_WaitUnbounded ==
    /\ [][(pc = "upd_wait" /\ completed < slotFence[mCurrFrameResourceIndex]) =>
             /\ pc' = "upd_wait"
             /\ UNCHANGED << ringVars, fenceVars, cbVars, drawVars >>]_vars
    /\ (pc = "upd_wait") ~> (pc = "upd_write")
    /\ \A f \in 1 .. MaxFence :
          (pc \in InFrame /\ frame = f) ~>
              (frame = f /\ (pc = "idle" \/ failedAt # "none"))

\* C16 witness: a frame in which Update had to wait on a slot used before
\* has been drawn and the thread is back in the message loop.
C16_Witness ==
    /\ pc = "idle"
    /\ waited
    /\ frame > gNumFrameResources
    /\ slotFence[mCurrFrameResourceIndex] = mCurrentFence

\* The pc values after Initialize returned and before the message loop ends.
Running == {"idle", "upd_advance"} \cup InFrame

\* C17: after startup the scene table is fixed: no step of Update, of Draw,
\* of the GPU or of a keyboard or mouse handler changes the number of items
\* or any item's World, ObjCBIndex, material or sub-range of the geometry,
\* and the table is the one BuildRenderItems made.
C17_SceneTableFixed ==
    [][(/\ (pc \notin Running /\ pc' \in Running)
              => (mAllRitems' = BuildRenderItems)
        /\ (pc \in Running)
              => (/\ mAllRitems' = mAllRitems
                  /\ Len(mAllRitems') = NumRitems))]_vars

\* C17 witness: frames were updated and drawn on every slot, a mouse message
\* has moved the camera, and the scene table is still the one built at
\* startup.
C17_Witness ==
    /\ pc = "idle"
    /\ frame > gNumFrameResources
    /\ nMouseEvents > 0
    /\ (mTheta # ThetaInit \/ mRadius # RadiusInit)
    /\ mAllRitems = BuildRenderItems
    /\ Len(mAllRitems) = NumRitems

\* The successions of pc values inside the message loop.
FrameOrder ==
    { << "idle", "upd_advance" >>, << "upd_advance", "upd_check" >>,
      << "upd_check", "upd_wait" >>, << "upd_check", "upd_write" >>,
      << "upd_wait", "upd_write" >>, << "upd_write", "draw_reset" >>,
      << "draw_reset", "draw_record" >>, << "draw_record", "draw_submit" >>,
      << "draw_submit", "draw_present" >>, << "draw_present", "draw_fence" >>,
      << "draw_fence", "idle" >> }

\* A step that queues a command list for the GPU.
Submits ==
    /\ Len(gpuQueue') = Len(gpuQueue) + 1
    /\ gpuQueue'[Len(gpuQueue')].kind = "exec"

\* The order of the steps of a frame, the camera left aside: the thread
\* leaves the order only to tear down (WM_QUIT between frames, or a failed
\* checked call); the ring index advances before the test of the wait, the
\* constants are written after it, then Draw submits commands reading the
\* current slot, then presents, and last takes and signals the fence value.
StepOrder ==
    /\ (pc \in Running /\ pc' # pc) =>
          (<< pc, pc' >> \in FrameOrder \/ pc' = "dtor")
    /\ mCurrFrameResourceIndex' # mCurrFrameResourceIndex =>
          (pc = "upd_advance" /\ pc' = "upd_check")
    /\ cbVars' # cbVars => (pc = "upd_write" /\ pc' = "draw_reset")
    /\ (pc \in Running /\ Submits) =>
          /\ pc = "draw_submit"
          /\ pc' = "draw_present"
          /\ gpuQueue'[Len(gpuQueue')] = ExecCmd(mCurrFrameResourceIndex)
    /\ mCurrBackBuffer' # mCurrBackBuffer =>
          (pc = "draw_present" /\ pc' = "draw_fence")
    /\ (pc \in Running /\ mCurrentFence' # mCurrentFence) =>
          /\ pc = "draw_fence"
          /\ pc' = "idle"
          /\ slotFence'[mCurrFrameResourceIndex] = mCurrentFence'

\* The view matrix is rebuilt by the step that writes the constants, after
\* the wait.
CameraAfterWait ==
    /\ mView' # mView => pc = "upd_write"
    /\ (pc = "upd_write" /\ pc' = "draw_reset") =>
          mView' = [theta |-> mTheta, phi |-> mPhi, radius |-> mRadius]

\* The view matrix is rebuilt by the first step of Update, before the ring
\* index advances, and by no other step.
CameraFirst ==
    /\ mView' # mView => (pc = "idle" /\ pc' = "upd_advance")
    /\ (pc = "idle" /\ pc' = "upd_advance") =>
          mView' = [theta |-> mTheta, phi |-> mPhi, radius |-> mRadius]

\* C18 as stated: the steps of a frame happen in the order advance the ring
\* index, wait, then recompute the camera and write the constants, submit,
\* present, advance the completion marker.
C18_OrderAsStated == [][StepOrder /\ CameraAfterWait]_vars

\* C18 amended: Update first recomputes the camera, then advances the ring
\* index, then waits if the GPU has not finished that slot, and only after
\* that writes the constants; Draw then submits the commands reading that
\* slot, presents, and last advances the completion marker.
C18_FrameOrder == [][StepOrder /\ CameraFirst]_vars

\* C18 witness: a mouse message moved the camera, and a frame that had to
\* wait for its slot has been updated with the moved camera and drawn.
C18_Witness ==
    /\ pc = "idle"
    /\ frame > gNumFrameResources
    /\ waited
    /\ mTheta # ThetaInit
    /\ mView = [theta |-> mTheta, phi |-> mPhi, radius |-> mRadius]
    /\ slotFence[mCurrFrameResourceIndex] = mCurrentFence

\* The state of Draw: Recording from the reset of the command list to its
\* execution (the list is closed at pc = "draw_submit"), Submitted until
\* Present has returned, Presented until the fence value is taken and
\* signalled, Idle otherwise.
DrawState ==
    CASE pc \in {"draw_record", "draw_submit"} -> "Recording"
      [] pc = "draw_present" -> "Submitted"
      [] pc = "draw_fence" -> "Presented"
      [] OTHER -> "Idle"

\* A step that queues a Signal for the GPU.
Signals ==
    /\ Len(gpuQueue') > Len(gpuQueue)
    /\ gpuQueue'[Len(gpuQueue')].kind = "signal"

\* C19: Draw goes Idle, Recording, Submitted, Presented, Idle and leaves
\* that order only when a checked call fails.  Recording starts with the
\* reset of the list, and only when every earlier frame was presented and
\* has taken its fence value; the list is executed only once it is recorded
\* in full and closed; Present follows the execution; the slot's fence value
\* is taken and signalled by the step from Presented to Idle and, while the
\* message loop runs, by no other.
C19_DrawStateMachine ==
    [][/\ DrawState' # DrawState =>
             \/ << DrawState, DrawState' >> \in
                    { << "Idle", "Recording" >>, << "Recording", "Submitted" >>,
                      << "Submitted", "Presented" >>, << "Presented", "Idle" >> }
             \/ (failedAt = "none" /\ failedAt' # "none" /\ DrawState' = "Idle")
       /\ (DrawState = "Idle" /\ DrawState' = "Recording") =>
             /\ drawCalls' = << >>
             /\ mCurrentFence = frame
             /\ mCurrBackBuffer = (frame - 1) % SwapChainBufferCount
       /\ (pc \in Running /\ Submits) =>
             /\ DrawState = "Recording"
             /\ DrawState' = "Submitted"
             /\ pc = "draw_submit"
             /\ Len(drawCalls) = Len(mAllRitems)
       /\ mCurrBackBuffer' # mCurrBackBuffer =>
             (DrawState = "Submitted" /\ DrawState' = "Presented")
       /\ (DrawState = "Presented" /\ DrawState' = "Idle" /\ failedAt' = "none") =>
             /\ mCurrentFence' = mCurrentFence + 1
             /\ slotFence'[mCurrFrameResourceIndex] = mCurrentFence'
             /\ Signals
             /\ gpuQueue'[Len(gpuQueue')] = SignalCmd(mCurrentFence')
       /\ (pc \in Running /\ (Signals \/ slotFence' # slotFence)) =>
             (DrawState = "Presented" /\ DrawState' = "Idle")]_vars

\* C19 witness: the second frame has gone through Recording, Submitted and
\* Presented and Draw is Idle again, its fence value taken and signalled.
C19_Witness ==
    /\ DrawState = "Idle"
    /\ pc = "idle"
    /\ frame = 2
    /\ Len(drawCalls) = Len(mAllRitems)
    /\ mCurrBackBuffer = frame % SwapChainBufferCount
    /\ slotFence[mCurrFrameResourceIndex] = frame + 1
    /\ mCurrentFence = frame + 1

\* The queued command lists that were recorded through the command allocator
\* of a slot.
InFlightThrough(slot) == {k \in 1 .. Len(gpuQueue) : gpuQueue[k] = ExecCmd(slot)}

\* C20: when Draw resets the command allocator of the current slot, in any
\* frame, no command list recorded through that allocator is still queued or
\* executing on the GPU, and the GPU has reached the slot's recorded Fence.
C20_AllocatorResetSafe ==
    [][(pc = "draw_reset" /\ pc' # pc) =>
          (/\ InFlightThrough(mCurrFrameResourceIndex) = {}
           /\ completed >= slotFence[mCurrFrameResourceIndex])]_vars

\* C20 witness: the allocator of a slot used before has been reset, after a
\* wait, while command lists of other slots are still in flight.
C20_Witness ==
    /\ pc = "draw_record"
    /\ frame > gNumFrameResources
    /\ waited
    /\ slotFence[mCurrFrameResourceIndex] # 0
    /\ InFlightThrough(mCurrFrameResourceIndex) = {}
    /\ \E s \in Slots : InFlightThrough(s) # {}

\* C21: the Update of a frame leaves mCurrFrameResource at the slot of the
\* advanced ring index, and neither changes until the frame is over; the
\* constants Update writes, the draws Draw records, the command list it
\* submits and the Fence it records are all those of that slot.
C21_DrawUsesAcquiredSlot ==
    [][/\ (pc = "upd_advance" /\ pc' = "upd_check") =>
             mCurrFrameResource' = mFrameResources(mCurrFrameResourceIndex')
       /\ (pc \in InFrame) =>
             /\ mCurrFrameResource = mFrameResources(mCurrFrameResourceIndex)
             /\ UNCHANGED << mCurrFrameResourceIndex, mCurrFrameResource >>
       /\ (pc = "draw_record" /\ pc' = "draw_submit") =>
             \A k \in 1 .. Len(drawCalls') :
                 drawCalls'[k].slot = mCurrFrameResourceIndex
       /\ (pc \in Running /\ Submits) =>
             gpuQueue'[Len(gpuQueue')] = ExecCmd(mCurrFrameResourceIndex)
       /\ \A s \in Slots \ {mCurrFrameResourceIndex} :
             /\ slotFence'[s] = slotFence[s]
             /\ objWrites'[s] = objWrites[s]
             /\ matWrites'[s] = matWrites[s]
             /\ passFrame'[s] = passFrame[s]]_vars

\* C21 witness: a frame on a slot used before was updated, recorded and
\* submitted against the slot its Update acquired and is about to record the
\* Fence of that slot.
C21_Witness ==
    /\ pc = "draw_fence"
    /\ frame > gNumFrameResources
    /\ mCurrFrameResource = mFrameResources(mCurrFrameResourceIndex)
    /\ slotFence[mCurrFrameResource] # 0
    /\ passFrame[mCurrFrameResource] = frame
    /\ Len(drawCalls) > 0
    /\ drawCalls[1].slot = mCurrFrameResource
    /\ InFlightThrough(mCurrFrameResource) # {}

\* The step in which Update writes the constants.
WritesConstants == pc = "upd_write" /\ pc' = "draw_reset"

\* C22: the dirty counter of every item is always in 0 .. gNumFrameResources;
\* an Update writes the item's constants into the current slot exactly when
\* the counter was above 0, then decrements it by exactly 1; a counter of 0
\* stays 0, and no other step changes a counter.
C22_DirtyCounterProtocol ==
    [][\A i \in Ritems :
          /\ NumFramesDirty[i] \in 0 .. gNumFrameResources
          /\ NumFramesDirty'[i] \in 0 .. gNumFrameResources
          /\ WritesConstants =>
                IF NumFramesDirty[i] > 0
                THEN /\ objWrites'[mCurrFrameResourceIndex][i] =
                            objWrites[mCurrFrameResourceIndex][i] + 1
                     /\ NumFramesDirty'[i] = NumFramesDirty[i] - 1
                ELSE /\ objWrites'[mCurrFrameResourceIndex][i] =
                            objWrites[mCurrFrameResourceIndex][i]
                     /\ NumFramesDirty'[i] = 0
          /\ ~WritesConstants => NumFramesDirty'[i] = NumFramesDirty[i]]_vars

\* C22 witness: an Update has written an item whose counter was 2 and left
\* it at 1; a later one will find it at 0.
C22_Witness ==
    /\ pc = "draw_reset"
    /\ updates = 2
    /\ \A i \in Ritems :
          /\ NumFramesDirty[i] = 1
          /\ objWrites[mCurrFrameResourceIndex][i] = 1

\* C23: materials follow the same protocol: an Update writes a material into
\* the current slot at its MatCBIndex exactly when its counter was above 0,
\* then decrements it by exactly 1; no slot is written twice, and from the
\* third Update on every slot holds every material and the counters are 0.
C23_MaterialDirtyProtocol ==
    [][\A m \in Materials :
          /\ MatNumFramesDirty[m] \in 0 .. gNumFrameResources
          /\ WritesConstants =>
                IF MatNumFramesDirty[m] > 0
                THEN /\ matWrites'[mCurrFrameResourceIndex][m] =
                            matWrites[mCurrFrameResourceIndex][m] + 1
                     /\ MatNumFramesDirty'[m] = MatNumFramesDirty[m] - 1
                ELSE /\ matWrites'[mCurrFrameResourceIndex][m] =
                            matWrites[mCurrFrameResourceIndex][m]
                     /\ MatNumFramesDirty'[m] = 0
          /\ ~WritesConstants => MatNumFramesDirty'[m] = MatNumFramesDirty[m]
          /\ \A s \in Slots : matWrites'[s][m] <= 1
          /\ updates >= gNumFrameResources =>
                /\ MatNumFramesDirty[m] = 0
                /\ \A s \in Slots : matWrites[s][m] = 1]_vars

\* C23 witness: more Updates than slots have run; every material was written
\* once into each slot and is clean.
C23_Witness ==
    /\ pc = "draw_reset"
    /\ updates = gNumFrameResources + 2
    /\ \A m \in Materials :
          /\ MatNumFramesDirty[m] = 0
          /\ \A s \in Slots : matWrites[s][m] = 1

\* The positions of a buffer that hold an element of the mesh of a shape.
PositionsOf(buffer, shape) == {k \in 1 .. Len(buffer) : buffer[k] = shape}

\* The positions of a buffer that hold elements of the meshes placed before
\* the mesh of a shape.
PositionsBefore(buffer, shape) ==
    {k \in 1 .. Len(buffer) : ShapePosition(buffer[k]) < ShapePosition(shape)}

\* C24: once BuildShapeGeometry has run, the submeshes box, grid, sphere and
\* cylinder partition the shared buffers: the start index and base vertex of
\* each are the numbers of indices and vertices of the shapes before it, its
\* range lies inside the buffer and holds exactly the elements of its own
\* mesh, so the ranges do not overlap and together cover both buffers.
C24_SubmeshesPartition ==
    mGeometries # NoGeometry =>
        \A shape \in Shapes :
            LET args == mGeometries.DrawArgs[shape]
                indexRange == (args.StartIndexLocation + 1) ..
                                  (args.StartIndexLocation + args.IndexCount)
                vertexRange == (args.BaseVertexLocation + 1) ..
                                   (args.BaseVertexLocation + geoGen[shape].Vertices)
            IN /\ args.IndexCount = geoGen[shape].Indices32
               /\ args.StartIndexLocation =
                      Cardinality(PositionsBefore(mGeometries.indices, shape))
               /\ args.BaseVertexLocation =
                      Cardinality(PositionsBefore(mGeometries.vertices, shape))
               /\ indexRange = PositionsOf(mGeometries.indices, shape)
               /\ vertexRange = PositionsOf(mGeometries.vertices, shape)
               /\ \A other \in Shapes \ {shape} :
                     LET o == mGeometries.DrawArgs[other]
                     IN /\ indexRange \cap ((o.StartIndexLocation + 1) ..
                              (o.StartIndexLocation + o.IndexCount)) = {}
                        /\ vertexRange \cap ((o.BaseVertexLocation + 1) ..
                              (o.BaseVertexLocation + geoGen[other].Vertices)) = {}

\* C24 witness: the geometry was built from meshes of different sizes whose
\* vertex counts differ from their index counts.
C24_Witness ==
    /\ pc = "init_submit"
    /\ mGeometries # NoGeometry
    /\ geoGen["box"].Vertices # geoGen["box"].Indices32
    /\ geoGen["grid"].Vertices # geoGen["box"].Vertices
    /\ mGeometries.DrawArgs["cylinder"].StartIndexLocation #
           mGeometries.DrawArgs["cylinder"].BaseVertexLocation
    /\ mGeometries.DrawArgs["cylinder"].StartIndexLocation
           + mGeometries.DrawArgs["cylinder"].IndexCount = Len(mGeometries.indices)


\* BuildFrameResources: the number of elements each slot's ObjectCB is
\* created with, (UINT)mAllRitems.size().
objectCount == Len(mAllRitems)

\* C27: once BuildRenderItems has run, the item at position k of mAllRitems
\* (counted from 0) has ObjCBIndex k, so the ObjCBIndex values are exactly
\* 0 .. count-1 with no value used twice; each slot's ObjectCB has as many
\* elements as there are items, so every element written by UpdateObjectCBs
\* and every element read by a recorded draw lies inside the buffer, and no
\* element is written for two items in one Update.
C27_ObjCBIndexDense ==
    mAllRitems # << >> =>
        /\ \A k \in 1 .. Len(mAllRitems) : mAllRitems[k].ObjCBIndex = k - 1
        /\ {mAllRitems[k].ObjCBIndex : k \in 1 .. Len(mAllRitems)} = 0 .. (objectCount - 1)
        /\ \A k, l \in 1 .. Len(mAllRitems) :
              mAllRitems[k].ObjCBIndex = mAllRitems[l].ObjCBIndex => k = l
        /\ \A s \in Slots :
              /\ DOMAIN ObjectCB[s] = 0 .. (objectCount - 1)
              /\ \A e \in DOMAIN objWrites[s] : objWrites[s][e] <= updates
        /\ \A k \in 1 .. Len(drawCalls) :
              drawCalls[k].ObjCBIndex \in DOMAIN ObjectCB[drawCalls[k].slot]

\* C27 witness: a frame has been recorded whose last draw, of the second
\* right sphere of the tower loop, reads element 36, written once by this
\* frame's Update.
C27_Witness ==
    /\ pc = "draw_submit"
    /\ Len(drawCalls) = 37
    /\ drawCalls[37].ObjCBIndex = 36
    /\ objWrites[mCurrFrameResourceIndex][36] = 1
    /\ drawCalls[30].ObjCBIndex = 29


\* The slot holds, at element ObjCBIndex of its ObjectCB, the World of every
\* item of the scene table, and at element MatCBIndex of its MaterialCB the
\* constants of every material.
HoldsConstants(slot) ==
    /\ \A k \in 1 .. Len(mAllRitems) :
          ObjectCB[slot][mAllRitems[k].ObjCBIndex] = mAllRitems[k].World
    /\ \A name \in DOMAIN mMaterials :
          matWrites[slot][mMaterials[name].MatCBIndex] >= 1

\* C25: while Draw runs, and for as long as a frame's command list waits in
\* the queue for the GPU, the slot the frame is drawn from holds the World of
\* every item and the constants of every material; this is so from the very
\* first frame on, although each slot is written during the first three
\* frames only.
C25_ConstantsWrittenBeforeDraw ==
    /\ pc \in Drawing => HoldsConstants(mCurrFrameResource)
    /\ \A k \in 1 .. Len(gpuQueue) :
          (gpuQueue[k].kind = "exec" /\ gpuQueue[k].arg \in Slots)
              => HoldsConstants(gpuQueue[k].arg)
    /\ \A k \in 1 .. Len(drawCalls) :
          ObjectCB[drawCalls[k].slot][drawCalls[k].ObjCBIndex]
              = mAllRitems[drawCalls[k].item].World

\* C25 witness: the third frame, the first drawn from its slot, has been
\* recorded and submitted; the slot holds the transform of the last item
\* and the slots of the first two frames are written as well.
C25_Witness ==
    /\ pc = "draw_present"
    /\ frame = 3
    /\ Len(drawCalls) = NumRitems
    /\ ObjectCB[mCurrFrameResource][36] = mAllRitems[37].World
    /\ mAllRitems[37].World # Unwritten
    /\ gpuQueue # << >>
    /\ gpuQueue[Len(gpuQueue)] = ExecCmd(mCurrFrameResource)
    /\ \A s \in Slots : HoldsConstants(s)


\* The number of frames whose command list Draw has handed to the queue:
\* the frame in progress counts from ExecuteCommandLists on.
Submitted ==
    IF pc \in {"idle", "upd_advance", "draw_present", "draw_fence"} THEN frame
    ELSE frame - 1

\* The fence value Draw signals for the j-th frame: FlushCommandQueue in
\* Initialize has taken 1, every Draw takes the next value.
FrameFence(j) == j + 1

\* The frames submitted whose fence value the GPU has not reached.
FramesInFlight ==
    {j \in 1 .. Submitted : completed < FrameFence(j)}

\* C26: while the frame loop runs, the frames submitted by Draw that the GPU
\* has not finished number at most gNumFrameResources = 3, and at most 2
\* while Update writes the constants of the slot it has acquired; every
\* frame signalled so far carries the fence value the count is based on.
C26_AtMostThreeFramesAhead ==
    pc \in Running =>
        /\ Cardinality(FramesInFlight) <= gNumFrameResources
        /\ gNumFrameResources = 3
        /\ pc = "upd_write" => Cardinality(FramesInFlight) <= gNumFrameResources - 1
        /\ mCurrentFence = FrameFence(IF pc \in {"idle", "upd_advance"} THEN frame
                                      ELSE frame - 1)
        /\ (pc \in {"idle", "upd_advance"} /\ frame > 0)
              => slotFence[mCurrFrameResource] = FrameFence(frame)

\* C26 witness: Update had to block on the fence, and with this frame
\* submitted three frames are again in flight.
C26_Witness ==
    /\ pc = "draw_fence"
    /\ waited
    /\ frame > gNumFrameResources
    /\ Cardinality(FramesInFlight) = gNumFrameResources


\* BuildFrameResources: the number of elements each slot's MaterialCB is
\* created with, (UINT)mMaterials.size().
materialCount == Cardinality(DOMAIN mMaterials)

\* C28: every item of the scene table, and every draw recorded from it, has
\* the geometry "shapeGeo", which BuildShapeGeometry has stored, and one of
\* the three materials of mMaterials; the three materials have pairwise
\* different MatCBIndex values, all inside the MaterialCB of
\* mMaterials.size() elements, and DiffuseSrvHeapIndex values inside the
\* heap of 3 descriptors.
C28_DrawnItemsComplete ==
    /\ materialCount = 3
    /\ \A m, n \in DOMAIN mMaterials :
          mMaterials[m].MatCBIndex = mMaterials[n].MatCBIndex => m = n
    /\ \A k \in 1 .. Len(mAllRitems) :
          /\ mAllRitems[k].Geo = "shapeGeo"
          /\ mGeometries # NoGeometry
          /\ \E n \in DOMAIN mMaterials : mAllRitems[k].Mat = mMaterials[n]
          /\ mAllRitems[k].Mat.MatCBIndex \in 0 .. (materialCount - 1)
          /\ mAllRitems[k].Mat.DiffuseSrvHeapIndex \in 0 .. (NumDescriptors - 1)
    /\ \A k \in 1 .. Len(drawCalls) :
          /\ drawCalls[k].Geo = mAllRitems[drawCalls[k].item].Geo
          /\ drawCalls[k].Mat = mAllRitems[drawCalls[k].item].Mat
          /\ drawCalls[k].MatCBIndex \in DOMAIN matWrites[drawCalls[k].slot]
          /\ drawCalls[k].MatCBIndex = drawCalls[k].Mat.MatCBIndex
          /\ drawCalls[k].DiffuseSrvHeapIndex \in 0 .. (NumDescriptors - 1)

\* C28 witness: a recorded frame draws items of all three materials: the
\* first box with stone0, the first merlon with tile0 and its texture at
\* heap index 2, the grid with bricks0.
C28_Witness ==
    /\ pc = "draw_submit"
    /\ Len(drawCalls) = NumRitems
    /\ drawCalls[1].Mat.Name = "stone0"
    /\ drawCalls[7].Mat.Name = "tile0"
    /\ drawCalls[7].DiffuseSrvHeapIndex = 2
    /\ drawCalls[25].Mat.Name = "bricks0"
    /\ drawCalls[25].MatCBIndex = 0


InitCommands == ExecCmd(-1)

\* The initialization commands are still in the queue.
StartupExecuting == \E k \in 1 .. Len(gpuQueue) : gpuQueue[k] = InitCommands

\* C30: Initialize returns true, and the frame loop is entered, only from
\* the wait of FlushCommandQueue, which follows the signal, which follows
\* the submission of the closed initialization command list; at that moment
\* the queue is empty and the fence has reached the signalled value, so
\* during Update and Draw the initialization commands are never still
\* executing.  When D3DApp::Initialize fails, Initialize returns at once:
\* no geometry, no render item, no command submitted.
C30_StartupFlushed ==
    [][(/\ (pc # "init_flush" /\ pc' = "init_flush")
              => (/\ pc = "init_submit"
                  /\ mAllRitems # << >>
                  /\ gpuQueue' = Append(gpuQueue, InitCommands))
        /\ (pc # "init_wait" /\ pc' = "init_wait")
              => (/\ pc = "init_flush"
                  /\ gpuQueue' = Append(gpuQueue, SignalCmd(mCurrentFence')))
        /\ (pc # "idle" /\ pc' = "idle" /\ frame = 0)
              => (/\ pc = "init_wait"
                  /\ gpuQueue = << >>
                  /\ completed = mCurrentFence)
        /\ (pc' \in Running)
              => (/\ ~StartupExecuting'
                  /\ completed' >= 1
                  /\ mAllRitems' # << >>
                  /\ mGeometries' # NoGeometry)
        /\ (pc = "start" /\ pc' \notin {"start", "init_build"})
              => (/\ pc' = "dtor"
                  /\ mAllRitems' = << >>
                  /\ mGeometries' = NoGeometry
                  /\ gpuQueue' = << >>
                  /\ mCurrentFence' = 0
                  /\ failedAt' = "none")
        /\ (pc' \in Stopped /\ mAllRitems' = << >> /\ failedAt' = "none")
              => (/\ \A k \in 1 .. Len(gpuQueue') : gpuQueue'[k].kind # "exec"
                  /\ frame' = 0
                  /\ mGeometries' = NoGeometry))]_vars

\* C30 witness: Initialize has just returned true: the scene is built, the
\* fence value 1 of the flush is reached and the queue is empty before the
\* first frame.
C30_Witness ==
    /\ pc = "idle"
    /\ frame = 0
    /\ mAllRitems = BuildRenderItems
    /\ mCurrentFence = 1
    /\ completed = 1
    /\ gpuQueue = << >>

====
